---- MODULE Spec2Model ----
(***************************************************************************)
(* State-machine model of skyplane's ReplicatorClient                      *)
(* (src/skyplane/replicate/replicator_client.py): the fleet provisioner    *)
(* (provision_gateways / deprovision_gateways) and the transfer monitor    *)
(* (monitor_transfer).                                                     *)
(*                                                                         *)
(* A region tag "<provider>:<subregion>" is the pair <<provider,           *)
(* subregion>>, so region.split(":") is the pair's two components.  A      *)
(* topology node is <<region, instance>>.  A Server is the cloud VM        *)
(* <<region, k>>.                                                          *)
(***************************************************************************)
EXTENDS Integers, Sequences, FiniteSets, TLC

\* ------------------------------------------------------------------ bounds
\* Cloud VMs that can ever exist in one region.
PoolSize == 2
\* Topology nodes per region.
MaxDemand == 2
\* provision_gateways / deprovision_gateways calls in one behaviour.
MaxCalls == 3
\* Workers of one parallel fan-out that fail.
MaxFaults == 1
\* Gateways of the topology a transfer is monitored on.
MaxGateways == 2
\* Chunk requests of a job; chunk ids in a gateway's log range over 0..MaxChunks.
MaxChunks == 2
\* Rows of the aggregated chunk status log in one poll.
MaxLogRows == 2
\* Records in multipart_upload_requests.
MaxUploads == 1
\* Seconds t.elapsed advances by between two polls, and how often it does.
TickSeconds == 301
MaxTicks == 2
\* The time_limit_seconds a caller passes, when it passes one.
TimeLimitSeconds == 400
\* Objects of a job, their sizes in bytes (0..MaxObjectSize) and the chunk sizes
\* max_chunk_size_mb stands for (1..MaxChunkSize).
MaxObjects == 2
MaxObjectSize == 5
MaxChunkSize == 3
\* Chunks, chunk lengths and batches the batching is applied to on its own.
MaxItems == 4
MaxLength == 3
MaxBatches == 3
\* Jobs one client plans and monitors one after another.
MaxJobs == 2

\* ------------------------------------------------------------- data model
ProviderOrder == <<"aws", "azure", "gcp">>
RegionOrder == << <<"aws", "us-east-1">>, <<"gcp", "us-central1">> >>
Regions == {RegionOrder[i] : i \in DOMAIN RegionOrder}
Servers == Regions \X (1..PoolSize)
ServerStates == {"ABSENT", "PENDING", "RUNNING", "TERMINATED"}

region_tag(s) == s[1]
public_ip(s) == <<"ip", s>>

Range(f) == {f[x] : x \in DOMAIN f}
SeqSet(s) == {s[i] : i \in 1..Len(s)}
Count(s, x) == Cardinality({i \in 1..Len(s) : s[i] = x})
Perms(S) == {p \in [1..Cardinality(S) -> S] : \A a \in S : \E i \in DOMAIN p : p[i] = a}

\* list.remove(x): drops the first occurrence.
RemoveFirst(s, x) ==
    IF \E i \in 1..Len(s) : s[i] = x
    THEN LET i == CHOOSE k \in 1..Len(s) : s[k] = x /\ \A j \in 1..(k - 1) : s[j] # x
         IN  SubSeq(s, 1, i - 1) \o SubSeq(s, i + 1, Len(s))
    ELSE s

RECURSIVE Concat(_)
Concat(ss) == IF Len(ss) = 0 THEN <<>> ELSE Head(ss) \o Concat(Tail(ss))

\* The gateway nodes of a topology with d[r] nodes in region r.
GatewayNodes(d) ==
    Concat([k \in 1..Len(RegionOrder) |->
              [i \in 1..d[RegionOrder[k]] |-> <<RegionOrder[k], i - 1>>]])

VARIABLES
    topology,         \* self.topology.gateway_nodes: sequence of nodes
    cloud,            \* Server -> instance_state() (ABSENT: never created)
    bound_nodes,      \* self.bound_nodes: node -> Server
    temp_nodes,       \* self.temp_nodes: sequence of Server
    security_group,   \* {<<aws subregion, ip>>}: IPs admitted by add_ip_to_security_group
    started,          \* Servers on which start_gateway has completed
    terminate_calls,  \* Server -> number of terminate_instance() calls
    owned,            \* Servers the client has provisioned or taken over by reuse
    last,             \* what the last call was and how it ended
    calls             \* number of calls made

pvars == <<topology, cloud, bound_nodes, temp_nodes, security_group, started,
           terminate_calls, owned, last, calls>>

VARIABLES
    sinks,                      \* self.topology.sink_instances(): set of nodes
    job,                        \* job.chunk_requests: sequence of chunks
    multipart_upload_requests,  \* self.multipart_upload_requests
    params,                     \* monitor_transfer's arguments
    pc,                         \* "idle", "loop" (inside while True), "done"
    clock,                      \* t.elapsed, in seconds
    poll,                       \* what the last loop iteration saw
    result,                     \* how the loop was left: the returned dict, or an exception
    cleanup,                    \* the finally block: whether it ran, which step raised
    complete_calls,             \* upload ids passed to complete_multipart_upload
    shutdown_posts              \* Servers sent POST /api/v1/shutdown

mvars == <<sinks, job, multipart_upload_requests, params, pc, clock, poll, result,
           cleanup, complete_calls, shutdown_posts>>

VARIABLES
    plan,           \* run_replication_plan: the job's inputs and the planner's position
    chunks,         \* chunks: the Chunk list, in emission order
    chunk_batches,  \* chunk_batches
    store,          \* destination object store: upload ids it has acknowledged
    posts           \* POSTs of /api/v1/chunk_requests the gateways have received
lvars == <<plan, chunks, chunk_batches, store, posts>>

vars == <<pvars, mvars, lvars>>

NoCall == [op |-> "none"]

\* ---------------------------------------------------- provision_gateways
regions_to_provision(topo) == [i \in 1..Len(topo) |-> topo[i][1]]

\* [r for r in regions_to_provision if r.startswith("<p>:")]
ProviderRegions(topo, p) == SelectSeq(regions_to_provision(topo), LAMBDA r : r[1] = p)

\* get_matching_instances(region, state in [PENDING, RUNNING]) as a set.
MatchingInstances(cl, r) == {s \in Servers : region_tag(s) = r /\ cl[s] \in {"PENDING", "RUNNING"}}

\* A set of VMs of one region as the list the provider returns (by VM index).
RECURSIVE Listed(_)
Listed(S) ==
    IF S = {} THEN <<>>
    ELSE LET s == CHOOSE x \in S : \A y \in S : x[2] <= y[2]
         IN  <<s>> \o Listed(S \ {s})

\* refresh_instance_list: per region of the topology, the matching instances; nothing
\* is listed when reuse_instances is off.
current_instances(cl, topo, reuse) ==
    [r \in Regions |->
        IF reuse /\ r \in SeqSet(regions_to_provision(topo))
        THEN Listed(MatchingInstances(cl, r)) ELSE <<>>]

\* The reuse phase leaving the to-provision list as it was.
ReuseRemove_Keep(lst, current, k) == lst

\* for i in ilist: if region in to_provision: to_provision.remove(region)
RECURSIVE RemoveN(_, _, _)
RemoveN(s, x, n) == IF n = 0 THEN s ELSE RemoveN(RemoveFirst(s, x), x, n - 1)

RECURSIVE ReuseRemove(_, _, _)
ReuseRemove(lst, current, k) ==
    IF k > Len(RegionOrder) THEN lst
    ELSE ReuseRemove(RemoveN(lst, RegionOrder[k], Len(current[RegionOrder[k]])), current, k + 1)

\* aws_regions_to_provision + azure_regions_to_provision + gcp_regions_to_provision,
\* after the reuse phase (current is empty when reuse is off).
ToProvision(topo, current) ==
    Concat([k \in 1..Len(ProviderOrder) |->
              ReuseRemove(ProviderRegions(topo, ProviderOrder[k]), current, 1)])

\* provision_gateway_instance: what one worker does for its region slot.
WorkerOutcomes == {"ok", "fail_create", "fail_autoshutdown"}
Creates(outcome, i) == outcome[i] # "fail_create"
Free(cl, r) == {s \in Servers : region_tag(s) = r /\ cl[s] = "ABSENT"}
Rank(slots, outcome, i) ==
    Cardinality({j \in 1..i : slots[j] = slots[i] /\ Creates(outcome, j)})
\* provider.provision_instance(subregion, ...): a VM that did not exist.
provision_instance(cl, slots, outcome, i) ==
    CHOOSE s \in Free(cl, slots[i]) :
        Cardinality({t \in Free(cl, slots[i]) : t[2] < s[2]}) = Rank(slots, outcome, i) - 1
CanCreate(cl, slots, outcome) ==
    \A i \in 1..Len(slots) :
        Creates(outcome, i) => Rank(slots, outcome, i) <= Cardinality(Free(cl, slots[i]))

\* What the workers of the provisioning fan-out can do: at most MaxFaults of them fail,
\* and the provider creates no more VMs than the region's pool holds.
FanOutOutcomes(cl, slots) ==
    {o \in [1..Len(slots) -> WorkerOutcomes] :
        /\ Cardinality({i \in 1..Len(slots) : o[i] # "ok"}) <= MaxFaults
        /\ CanCreate(cl, slots, o)}

\* The slots whose worker reaches self.temp_nodes.append(server): enable_auto_shutdown
\* comes first, so a worker that fails there never appends.
AppendingSlots(slots, outcome) == {i \in 1..Len(slots) : outcome[i] = "ok"}

\* The orders in which the workers' appends can land in temp_nodes.  When every
\* worker succeeds the binding loop removes all of them again, so one order stands
\* for all.
AppendOrders(slots, outcome) ==
    IF \A i \in 1..Len(slots) : outcome[i] = "ok"
    THEN {[i \in 1..Len(slots) |-> i]}
    ELSE Perms(AppendingSlots(slots, outcome))

\* instances_by_region[r] after "add existing instances".
InstancesByRegion(topo, slots, cl, outcome, current) ==
    [r \in SeqSet(regions_to_provision(topo)) |->
        LET mine == SelectSeq([i \in 1..Len(slots) |-> i], LAMBDA i : slots[i] = r)
        IN  [j \in 1..Len(mine) |-> provision_instance(cl, slots, outcome, mine[j])]
            \o current[r]]

\* self.temp_nodes.extend(ilist) for every listed region, provider by provider.
ExtendTemp(temp, current) ==
    temp \o Concat([k \in 1..Len(RegionOrder) |-> current[RegionOrder[k]]])

\* BindNode without self.temp_nodes.remove(instance).
BindNode_NoRemove(st, node) ==
    LET lst == st.ibr[node[1]]
        instance == lst[Len(lst)]
    IN  [ibr   |-> [st.ibr EXCEPT ![node[1]] = SubSeq(lst, 1, Len(lst) - 1)],
         bound |-> [n \in DOMAIN st.bound \cup {node} |->
                        IF n = node THEN instance ELSE st.bound[n]],
         temp  |-> st.temp,
         ok    |-> TRUE]

\* One step of "bind instances to nodes": instance = instances_by_region[region].pop();
\* self.bound_nodes[node] = instance; self.temp_nodes.remove(instance).
BindNode(st, node) ==
    LET lst == st.ibr[node[1]]
        instance == lst[Len(lst)]
    IN  [ibr   |-> [st.ibr EXCEPT ![node[1]] = SubSeq(lst, 1, Len(lst) - 1)],
         bound |-> [n \in DOMAIN st.bound \cup {node} |->
                        IF n = node THEN instance ELSE st.bound[n]],
         temp  |-> RemoveFirst(st.temp, instance),
         ok    |-> TRUE]

\* The binding loop; pop() from an empty list raises and ends the loop.
RECURSIVE BindAll(_, _, _)
BindAll(st, topo, i) ==
    IF i > Len(topo) THEN st
    ELSE IF Len(st.ibr[topo[i][1]]) = 0 THEN [st EXCEPT !.ok = FALSE]
    ELSE BindAll(BindNode(st, topo[i]), topo, i + 1)

\* Firewall rules: for r in set(aws_regions_to_provision) for ip in public_ips,
\* where aws_regions_to_provision is the list left by the reuse phase.
FirewallJobs(topo, current, bound) ==
    {<<r[2], public_ip(bound[topo[i]])>> :
        r \in SeqSet(ReuseRemove(ProviderRegions(topo, "aws"), current, 1)),
        i \in 1..Len(topo)}

\* The jobs of a fan-out that complete when at most MaxFaults of them fail.
PartlyDone(jobs) ==
    {part \in SUBSET jobs : part # jobs /\ Cardinality(jobs \ part) <= MaxFaults}

\* start_gateway returning at once, whatever the state of the instance.
start_gateway_NoWait(cl, servers) == cl

\* server.start_gateway(...) on each of the servers: it returns when the gateway
\* container is up and its HTTP API is reachable, so the instance has left PENDING.
start_gateway(cl, servers) ==
    [s \in Servers |-> IF s \in servers THEN "RUNNING" ELSE cl[s]]

Returned(reuse, ok, why, cr, ls) ==
    [op |-> "provision", ok |-> ok, reuse |-> reuse, fault |-> why,
     entry_temp_empty |-> (temp_nodes = <<>>), created |-> cr, listed |-> ls,
     was_pending |-> {s \in Servers : cloud[s] = "PENDING"}]

\* A failure before any instance is touched: an assertion, a cloud initialisation job
\* or the instance listing.
ProvisionFailsEarly(reuse, fault) ==
    /\ fault = "list" => reuse
    /\ last' = Returned(reuse, FALSE, fault, {}, {})
    /\ UNCHANGED <<cloud, bound_nodes, temp_nodes, security_group, started, owned>>

\* The provisioning fan-out and, when every worker succeeded, the phases after it.
ProvisionRuns(reuse, current, slots, outcome, order, fault) ==
    LET created == {provision_instance(cloud, slots, outcome, i) :
                       i \in {j \in 1..Len(slots) : Creates(outcome, j)}}
        temp1   == temp_nodes \o
                   [j \in 1..Len(order) |-> provision_instance(cloud, slots, outcome, order[j])]
        listed  == UNION {SeqSet(current[r]) : r \in Regions}
        cloud1  == [s \in Servers |-> IF s \in created THEN "RUNNING" ELSE cloud[s]]
    IN
    /\ IF \E i \in 1..Len(slots) : outcome[i] # "ok" THEN
          /\ fault = "none"
          /\ cloud' = cloud1
          /\ temp_nodes' = temp1
          /\ owned' = owned \cup created
          /\ last' = Returned(reuse, FALSE, "provision", created, {})
          /\ UNCHANGED <<bound_nodes, security_group, started>>
       ELSE
          \E bind \in {BindAll([ibr   |-> InstancesByRegion(topology, slots, cloud, outcome, current),
                                bound |-> bound_nodes,
                                temp  |-> ExtendTemp(temp1, current),
                                ok    |-> TRUE], topology, 1)} :
          \E jobs \in {FirewallJobs(topology, current, bind.bound)} :
             /\ bound_nodes' = bind.bound
             /\ temp_nodes' = bind.temp
             /\ owned' = owned \cup created \cup listed
             /\ IF ~bind.ok THEN
                   /\ fault = "none"
                   /\ last' = Returned(reuse, FALSE, "bind", created, listed)
                   /\ cloud' = cloud1
                   /\ UNCHANGED <<security_group, started>>
                ELSE IF fault = "firewall" THEN
                   /\ \E part \in PartlyDone(jobs) : security_group' = security_group \cup part
                   /\ last' = Returned(reuse, FALSE, fault, created, listed)
                   /\ cloud' = cloud1
                   /\ UNCHANGED started
                ELSE IF fault = "setup" THEN
                   /\ security_group' = security_group \cup jobs
                   /\ \E part \in PartlyDone(Range(bind.bound)) :
                         /\ started' = started \cup part
                         /\ cloud' = start_gateway(cloud1, part)
                   /\ last' = Returned(reuse, FALSE, fault, created, listed)
                ELSE
                   /\ security_group' = security_group \cup jobs
                   /\ started' = started \cup Range(bind.bound)
                   /\ cloud' = start_gateway(cloud1, Range(bind.bound))
                   /\ last' = Returned(reuse, TRUE, "none", created, listed)

ProvisionGateways ==
    /\ calls < MaxCalls
    /\ calls' = calls + 1
    /\ UNCHANGED <<topology, terminate_calls>>
    /\ UNCHANGED <<mvars, lvars>>
    /\ \E reuse \in BOOLEAN :
          \/ \E fault \in {"init", "list"} : ProvisionFailsEarly(reuse, fault)
          \/ \E current \in {current_instances(cloud, topology, reuse)} :
             \E slots \in {ToProvision(topology, current)} :
             \E outcome \in FanOutOutcomes(cloud, slots) :
             \E order \in AppendOrders(slots, outcome) :
             \E fault \in {"none", "firewall", "setup"} :
                ProvisionRuns(reuse, current, slots, outcome, order, fault)

\* -------------------------------------------------- deprovision_gateways
\* Instances that forgets the bound servers.
Instances_TempOnly(topo, bound, temp) == temp

\* list(self.bound_nodes.values()) + self.temp_nodes
Instances(topo, bound, temp) ==
    [j \in 1..Len(SelectSeq(topo, LAMBDA n : n \in DOMAIN bound)) |->
        bound[SelectSeq(topo, LAMBDA n : n \in DOMAIN bound)[j]]] \o temp

\* deprovision_gateway_instance without the instance_state() check.
ToTerminate_Any(cl, instances) == SeqSet(instances)

\* deprovision_gateway_instance: the servers terminate_instance() is called on.
ToTerminate(cl, instances) == {s \in SeqSet(instances) : cl[s] = "RUNNING"}

\* Two workers given the same server can both read RUNNING before either terminates.
Racing(cl, instances) == {s \in ToTerminate(cl, instances) : Count(instances, s) > 1}

\* set(aws_regions) x public_ips handed to remove_ip_from_security_group
RevokeJobs(topo, instances) ==
    {<<r[2], public_ip(s)>> : r \in SeqSet(ProviderRegions(topo, "aws")), s \in SeqSet(instances)}

\* The client and cloud state deprovision_gateways leaves.
DeprovisionResult(st, topo, twice) ==
    LET instances == Instances(topo, st.bound_nodes, st.temp_nodes)
        kill      == ToTerminate(st.cloud, instances)
    IN  [bound_nodes     |-> st.bound_nodes,
         temp_nodes      |-> <<>>,
         cloud           |-> [s \in Servers |-> IF s \in kill THEN "TERMINATED" ELSE st.cloud[s]],
         security_group  |-> st.security_group \ RevokeJobs(topo, instances),
         terminate_calls |-> [s \in Servers |->
                                 st.terminate_calls[s]
                                 + (IF s \in kill THEN 1 ELSE 0)
                                 + (IF s \in kill \cap twice THEN 1 ELSE 0)]]

ClientState ==
    [bound_nodes |-> bound_nodes, temp_nodes |-> temp_nodes, cloud |-> cloud,
     security_group |-> security_group, terminate_calls |-> terminate_calls]

\* A failing revoke raised out of deprovision_gateways: nothing after it runs.
remove_ip_from_security_group_Raises(res, failing) ==
    IF failing = {} THEN res ELSE ClientState

\* self.aws.remove_ip_from_security_group for the jobs in failing: the error is logged,
\* not raised, and the rule stays in the security group.
remove_ip_from_security_group(res, failing) ==
    [res EXCEPT !.security_group = @ \cup (failing \cap security_group)]

\* The revoke jobs of one call that fail: at most MaxFaults of them.
FailingRevokes(jobs) == {f \in SUBSET jobs : Cardinality(f) <= MaxFaults}

DeprovisionGateways ==
    \E twice \in SUBSET Racing(cloud, Instances(topology, bound_nodes, temp_nodes)) :
    \E failing \in FailingRevokes(RevokeJobs(topology,
                                      Instances(topology, bound_nodes, temp_nodes))) :
        LET instances == Instances(topology, bound_nodes, temp_nodes)
            res == remove_ip_from_security_group(
                       DeprovisionResult(ClientState, topology, twice), failing)
        IN  /\ calls < MaxCalls
            /\ calls' = calls + 1
            /\ bound_nodes' = res.bound_nodes
            /\ temp_nodes' = res.temp_nodes
            /\ cloud' = res.cloud
            /\ security_group' = res.security_group
            /\ terminate_calls' = res.terminate_calls
            /\ last' = [op |-> "deprovision", ok |-> TRUE,
                        held |-> Range(bound_nodes) \cup SeqSet(temp_nodes),
                        was_running |-> {s \in Servers : cloud[s] = "RUNNING"},
                        was_pending |-> {s \in Servers : cloud[s] = "PENDING"},
                        unrevoked |-> failing]
            /\ UNCHANGED <<topology, started, owned>>
            /\ UNCHANGED <<mvars, lvars>>

\* ------------------------------------------------------- monitor_transfer
\* elif ... or t.elapsed > 600 and completed_bytes == 0
StallSeconds == 600

ChunkStates == {"upload_in_progress", "upload_complete"}
ChunkIds == 0..MaxChunks
ErrorLists == {<<>>, <<"disk full">>}

RECURSIVE SubsetsUpTo(_, _)
SubsetsUpTo(S, k) ==
    IF k = 0 THEN {{}}
    ELSE LET smaller == SubsetsUpTo(S, k - 1)
         IN  smaller \cup {T \cup {x} : T \in smaller, x \in S}

\* get_chunk_status: a gateway's log entry, annotated with its node's region and
\* instance.
LogRow(node, c, st) == [chunk_id |-> c, state |-> st, region |-> node[1], instance |-> node[2]]

\* get_chunk_status_log_df: the rows all gateways can return in one poll.
LogRows(bound) == {LogRow(n, c, st) : n \in DOMAIN bound, c \in ChunkIds, st \in ChunkStates}

\* is_complete_rec: instance and region are each looked up among the sinks.
is_complete_rec(row, sink_instances) ==
    /\ row.state = "upload_complete"
    /\ row.instance \in {n[2] : n \in sink_instances}
    /\ row.region \in {n[1] : n \in sink_instances}

\* sink_status_df, completed_status, completed_chunk_ids
CompletedChunkIds(log_df, sink_instances) ==
    LET sink_status_df == {row \in log_df : is_complete_rec(row, sink_instances)}
    IN  {c \in {row.chunk_id : row \in sink_status_df} :
            {row.region : row \in {x \in sink_status_df : x.chunk_id = c}}
                = {n[1] : n \in sink_instances}}

RECURSIVE SumLengths(_, _)
SumLengths(crs, ids) ==
    IF crs = <<>> THEN 0
    ELSE (IF Head(crs).chunk_id \in ids THEN Head(crs).chunk_length_bytes ELSE 0)
         + SumLengths(Tail(crs), ids)

\* completed_bytes
CompletedBytes(crs, ids) == SumLengths(crs, ids)

\* time_limit_seconds is not None and t.elapsed > time_limit_seconds
\* or t.elapsed > 600 and completed_bytes == 0
TimedOut(time_limit_seconds, elapsed, completed_bytes) ==
    \/ time_limit_seconds # <<>> /\ elapsed > time_limit_seconds[1]
    \/ elapsed > StallSeconds /\ completed_bytes = 0

\* The steps of the finally block that can raise: the compression statistics request,
\* copy_log, the profile's get_chunk_status_log_df, write_socket_profile.
CleanupFaults == {"none", "compression", "copy_gateway_logs", "write_profile", "write_socket_profile"}

\* if cleanup_gateway: do_parallel(fn, self.bound_nodes.values()), the last step of the
\* finally block: it is reached only when no earlier step raised.
ShutdownPosts(cleanup_gateway, fault, bound) ==
    IF cleanup_gateway /\ fault = "none" THEN Range(bound) ELSE {}

\* Leaving the loop, by return or by exception: the finally block runs.
Leave(res) ==
    /\ result' = res
    /\ pc' = "done"
    /\ \E fault \in CleanupFaults :
          /\ cleanup' = [ran |-> TRUE, fault |-> fault]
          /\ shutdown_posts' = ShutdownPosts(params.cleanup_gateway, fault, bound_nodes)

Raised(where) == [monitor_status |-> "exception", raised_by |-> where]

\* What GET /api/v1/errors answers.
ErrorReplies == {[status_code |-> 200, errors |-> e] : e \in ErrorLists}
                    \cup {[status_code |-> 500, errors |-> <<>>]}

\* The errors dict of the error return with the healthy gateways left out.
ErrorReport_ErroringOnly(replies) ==
    [g \in {h \in DOMAIN replies : replies[h].errors # <<>>} |-> replies[g].errors]

\* check_error_logs: errors[instance] = result, for every bound instance.
ErrorReport(replies) == [g \in DOMAIN replies |-> replies[g].errors]

\* The completed branch finalizing nothing.
CompleteUploads_None(requests) == <<>>

\* complete_upload over self.multipart_upload_requests: every record is submitted as
\* complete_multipart_upload(req["key"], req["upload_id"], req["parts"]).
CompleteUploads(requests) ==
    [i \in 1..Len(requests) |->
        [key |-> requests[i].key, upload_id |-> requests[i].upload_id,
         parts |-> requests[i].parts]]

\* One pass of the while True loop that ends in the liveness probe or the error scan.
PollStopsEarly ==
    \/ /\ poll' = [seen |-> "probe failure", elapsed |-> clock,
                   completed_chunk_ids |-> poll.completed_chunk_ids]
       /\ Leave(Raised("run_command"))
       /\ UNCHANGED complete_calls
    \/ \E replies \in [Range(bound_nodes) -> ErrorReplies] :
          /\ \E g \in DOMAIN replies : replies[g] # [status_code |-> 200, errors |-> <<>>]
          /\ poll' = [seen |-> "errors", elapsed |-> clock, replies |-> replies,
                      completed_chunk_ids |-> poll.completed_chunk_ids]
          /\ IF \E g \in DOMAIN replies : replies[g].status_code # 200
             THEN Leave(Raised("check_error_logs"))
             ELSE Leave([monitor_status |-> "error", errors |-> ErrorReport(replies)])
          /\ UNCHANGED complete_calls

\* One pass of the loop in which probe and error scan pass and the chunk status log is
\* fetched.
PollReadsLog ==
    \/ /\ poll' = [seen |-> "log failure", elapsed |-> clock,
                   completed_chunk_ids |-> poll.completed_chunk_ids]
       /\ Leave(Raised("get_chunk_status_log_df"))
       /\ UNCHANGED complete_calls
    \/ \E log_df \in SubsetsUpTo(LogRows(bound_nodes), MaxLogRows) :
          IF log_df = {} THEN
             \* if log_df.empty: time.sleep(0.5); continue
             /\ poll' = [seen |-> "empty log", elapsed |-> clock,
                         completed_chunk_ids |-> poll.completed_chunk_ids]
             /\ UNCHANGED <<pc, result, cleanup, shutdown_posts, complete_calls>>
          ELSE
             \E completed_chunk_ids \in {CompletedChunkIds(log_df, sinks)} :
             \E completed_bytes \in {CompletedBytes(job, completed_chunk_ids)} :
                /\ IF Cardinality(completed_chunk_ids) = Len(job) /\ params.multipart
                   THEN UNCHANGED <<>>
                   ELSE poll' = [seen |-> "log", elapsed |-> clock,
                                 completed_chunk_ids |-> completed_chunk_ids,
                                 finalized |-> <<>>]
                /\ IF Cardinality(completed_chunk_ids) = Len(job) THEN
                      IF params.multipart THEN
                         /\ complete_calls' = complete_calls \o CompleteUploads(multipart_upload_requests)
                         /\ \E succ \in [1..Len(multipart_upload_requests) -> BOOLEAN] :
                               /\ poll' = [seen |-> "log", elapsed |-> clock,
                                           completed_chunk_ids |-> completed_chunk_ids,
                                           finalized |-> succ]
                               /\ IF \E i \in DOMAIN succ : ~succ[i]
                                  THEN Leave(Raised("complete_upload"))
                                  ELSE Leave([monitor_status |-> "completed",
                                              completed_chunk_ids |-> completed_chunk_ids])
                      ELSE
                         /\ Leave([monitor_status |-> "completed",
                                   completed_chunk_ids |-> completed_chunk_ids])
                         /\ UNCHANGED complete_calls
                   ELSE IF TimedOut(params.time_limit_seconds, clock, completed_bytes) THEN
                      /\ Leave([monitor_status |-> "timed_out",
                                completed_chunk_ids |-> completed_chunk_ids])
                      /\ UNCHANGED complete_calls
                   ELSE
                      UNCHANGED <<pc, result, cleanup, shutdown_posts, complete_calls>>

\* One iteration of monitor_transfer's loop, with the finally block when it leaves.
MonitorIteration ==
    /\ pc = "loop"
    /\ (PollStopsEarly \/ PollReadsLog)
    /\ UNCHANGED <<pvars, sinks, job, multipart_upload_requests, params, clock, lvars>>

\* Time passes between two polls.
Tick ==
    /\ pc = "loop"
    /\ clock < MaxTicks * TickSeconds
    /\ clock' = clock + TickSeconds
    /\ UNCHANGED <<pvars, sinks, job, multipart_upload_requests, params, pc, poll, result,
                   cleanup, complete_calls, shutdown_posts, lvars>>

\* --------------------------------------------------- run_replication_plan
Min2(a, b) == IF a < b THEN a ELSE b

\* num_chunks = int(obj_file_size_bytes[src_obj] / chunk_size_bytes) + 1
num_chunks(size, chunk_size_bytes) == (size \div chunk_size_bytes) + 1

\* file_size_bytes = min(chunk_size_bytes, obj_file_size_bytes[src_obj] - offset), with
\* offset = chunk * chunk_size_bytes
file_size_bytes(size, chunk_size_bytes, chunk) ==
    Min2(chunk_size_bytes, size - chunk * chunk_size_bytes)

\* The passes of "for chunk in range(num_chunks)" that append a chunk: the loop stops
\* at the first pass whose assert file_size_bytes > 0 fails.
EmittedChunks(size, chunk_size_bytes) ==
    LET n   == num_chunks(size, chunk_size_bytes)
        bad == {c \in 0..(n - 1) : file_size_bytes(size, chunk_size_bytes, c) <= 0}
    IN  IF bad = {} THEN n ELSE CHOOSE c \in bad : \A d \in bad : c <= d

\* A chunk of a multipart object numbered without idx += 1.
MultipartChunk_SameId(obj, idx, size, chunk_size_bytes, upload_id, c) ==
    [src_key |-> obj, dest_key |-> obj, chunk_id |-> idx,
     file_offset_bytes |-> c * chunk_size_bytes,
     chunk_length_bytes |-> file_size_bytes(size, chunk_size_bytes, c),
     part_number |-> <<c + 1>>, upload_id |-> <<upload_id>>]

\* Chunk(src_key, dest_key, chunk_id=idx, file_offset_bytes=offset,
\*       chunk_length_bytes=file_size_bytes, part_number=part_num, upload_id=upload_id)
MultipartChunk(obj, idx, size, chunk_size_bytes, upload_id, c) ==
    [src_key |-> obj, dest_key |-> obj, chunk_id |-> idx + c,
     file_offset_bytes |-> c * chunk_size_bytes,
     chunk_length_bytes |-> file_size_bytes(size, chunk_size_bytes, c),
     part_number |-> <<c + 1>>, upload_id |-> <<upload_id>>]

\* Chunk(src_key, dest_key, chunk_id=idx, file_offset_bytes=0, chunk_length_bytes=size)
WholeChunk(obj, idx, size) ==
    [src_key |-> obj, dest_key |-> obj, chunk_id |-> idx, file_offset_bytes |-> 0,
     chunk_length_bytes |-> size, part_number |-> <<>>, upload_id |-> <<>>]

\* obj_store_interface.initiate_multipart_upload(dest_obj): the store acknowledges a
\* new upload id.
initiate_multipart_upload(st, dest_obj) ==
    Append(st, [upload_id |-> Len(st) + 1, key |-> dest_obj])

\* The planner forgetting the record of an upload.
AppendUploadRecord_Skip(requests, rec) == requests

\* self.multipart_upload_requests.append({... upload_id, key, parts})
AppendUploadRecord(requests, rec) == Append(requests, rec)

\* part_num counted from 0.
part_numbers_FromZero(emitted) == [c \in 1..Len(emitted) |-> c - 1]

\* parts: part_num appended once per emitted chunk.
part_numbers(emitted) == [c \in 1..Len(emitted) |-> emitted[c].part_number[1]]

\* items.sort(key=lambda c: c.chunk_length_bytes, reverse=True): a stable sort.
InsertDescending(sorted, x) ==
    LET k == Cardinality({i \in 1..Len(sorted) :
                             sorted[i].chunk_length_bytes >= x.chunk_length_bytes})
    IN  SubSeq(sorted, 1, k) \o <<x>> \o SubSeq(sorted, k + 1, Len(sorted))

RECURSIVE SortDescending(_, _, _)
SortDescending(items, i, sorted) ==
    IF i > Len(items) THEN sorted
    ELSE SortDescending(items, i + 1, InsertDescending(sorted, items[i]))

RECURSIVE BatchSum(_)
BatchSum(b) == IF b = <<>> THEN 0 ELSE Head(b).chunk_length_bytes + BatchSum(Tail(b))

\* The smallest batch with the highest index.
SmallestBatch_Highest(batches) ==
    CHOOSE b \in 1..Len(batches) :
        \A c \in 1..Len(batches) :
            \/ BatchSum(batches[b]) < BatchSum(batches[c])
            \/ BatchSum(batches[b]) = BatchSum(batches[c]) /\ b >= c

\* batch_sizes.index(min(batch_sizes))
SmallestBatch(batches) ==
    CHOOSE b \in 1..Len(batches) :
        \A c \in 1..Len(batches) :
            \/ BatchSum(batches[b]) < BatchSum(batches[c])
            \/ BatchSum(batches[b]) = BatchSum(batches[c]) /\ b <= c

RECURSIVE Place(_, _, _)
Place(batches, items, i) ==
    IF i > Len(items) THEN batches
    ELSE Place([batches EXCEPT ![SmallestBatch(batches)] = Append(@, items[i])], items, i + 1)

\* partition(items, n_batches)
partition(items, n_batches) ==
    Place([b \in 1..n_batches |-> <<>>], SortDescending(items, 1, <<>>), 1)

\* ChunkRequest(chunk=chunk, ..., src_type=..., dst_type=...): both types are decided
\* by job.dest_bucket.
ChunkRequest(chunk) ==
    [chunk |-> chunk,
     src_type |-> IF plan.dest_bucket THEN "object_store" ELSE "random",
     dst_type |-> IF plan.dest_bucket THEN "object_store" ELSE "save_local"]

\* The batches with their last chunk request left out.
Flatten_DropLast(sharded) ==
    LET all == Concat(sharded) IN SubSeq(all, 1, Len(all) - 1)

\* [cr for crlist in chunk_requests_sharded.values() for cr in crlist]
Flatten(sharded) == Concat(sharded)

\* One pass of "for (src_obj, dest_obj) in zip(job.src_objs, job.dest_objs)".
PlanObject ==
    /\ plan.pc = "chunking"
    /\ plan.next <= Len(plan.obj_sizes)
    /\ LET obj  == plan.next
           size == plan.obj_sizes[obj]
       IN  IF plan.max_chunk_size = <<>> THEN
              /\ chunks' = Append(chunks, WholeChunk(obj, plan.idx, size))
              /\ plan' = [plan EXCEPT !.next = @ + 1, !.idx = @ + 1]
              /\ UNCHANGED <<store, multipart_upload_requests>>
           ELSE
              \/ \* initiate_multipart_upload raises
                 /\ plan' = [plan EXCEPT !.pc = "failed"]
                 /\ UNCHANGED <<chunks, store, multipart_upload_requests>>
              \/ LET chunk_size_bytes == plan.max_chunk_size[1]
                     upload_id == Len(store) + 1
                     n == EmittedChunks(size, chunk_size_bytes)
                     emitted == [c \in 1..n |->
                                    MultipartChunk(obj, plan.idx, size, chunk_size_bytes,
                                                   upload_id, c - 1)]
                 IN  /\ store' = initiate_multipart_upload(store, obj)
                     /\ chunks' = chunks \o emitted
                     /\ IF n < num_chunks(size, chunk_size_bytes) THEN
                           \* assert file_size_bytes > 0 fails
                           /\ plan' = [plan EXCEPT !.pc = "failed", !.idx = @ + n]
                           /\ UNCHANGED multipart_upload_requests
                        ELSE
                           /\ plan' = [plan EXCEPT !.next = @ + 1, !.idx = @ + n]
                           /\ multipart_upload_requests' =
                                 AppendUploadRecord(multipart_upload_requests,
                                     [upload_id |-> upload_id, key |-> obj,
                                      parts |-> part_numbers(emitted)])
    /\ UNCHANGED <<pvars, sinks, job, params, pc, clock, poll, result, cleanup,
                   complete_calls, shutdown_posts, chunk_batches, posts>>

\* The dispatch fan-out taking every answer for a success.
AllAccepted_Always(status) == TRUE

\* send_chunk_requests: if reply.status_code != 200: raise; the fan-out returns when no
\* worker raised.
AllAccepted(status) == \A k \in DOMAIN status : status[k] = 200

\* Batching, chunk request construction and the dispatch fan-out; job.chunk_requests
\* is set when every POST was answered with 200.
Dispatch ==
    /\ plan.pc = "chunking"
    /\ plan.next > Len(plan.obj_sizes)
    /\ LET src_instances == [k \in 1..Len(plan.sources) |-> bound_nodes[plan.sources[k]]]
           batches == partition(chunks, Len(src_instances))
           chunk_requests_sharded ==
               [b \in 1..Len(batches) |->
                   [j \in 1..Len(batches[b]) |-> ChunkRequest(batches[b][j])]]
       IN  /\ chunk_batches' = batches
           /\ \E status \in [1..Len(src_instances) -> {200, 500}] :
                 /\ posts' = posts \o
                       [k \in 1..Len(src_instances) |->
                           [instance |-> src_instances[k],
                            chunk_requests |-> chunk_requests_sharded[k],
                            status_code |-> status[k]]]
                 /\ IF AllAccepted(status)
                    THEN /\ job' = Flatten(chunk_requests_sharded)
                         /\ plan' = [plan EXCEPT !.pc = "done"]
                    ELSE /\ plan' = [plan EXCEPT !.pc = "failed"]
                         /\ UNCHANGED job
    /\ UNCHANGED <<pvars, sinks, multipart_upload_requests, params, pc, clock, poll, result,
                   cleanup, complete_calls, shutdown_posts, chunks, store>>

\* partition applied to a chunk list on its own.
Partition ==
    /\ plan.pc = "partition"
    /\ chunk_batches' = partition(chunks, plan.n_batches)
    /\ plan' = [plan EXCEPT !.pc = "partitioned"]
    /\ UNCHANGED <<pvars, mvars, chunks, store, posts>>

\* ------------------------------------------------------------ specification
\* Instances that exist before the client runs: the first VMs of each region's pool,
\* PENDING or RUNNING.
InitialClouds ==
    {c \in [Servers -> {"ABSENT", "PENDING", "RUNNING"}] :
        \A s \in Servers : c[s] # "ABSENT" =>
            \A t \in Servers : (t[1] = s[1] /\ t[2] < s[2]) => c[t] # "ABSENT"}

Topologies ==
    {GatewayNodes(d) : d \in {e \in [Regions -> 0..MaxDemand] : \E r \in Regions : e[r] > 0}}

NoPoll == [seen |-> "nothing"]
NoResult == [monitor_status |-> "none"]
NoCleanup == [ran |-> FALSE, fault |-> "none"]

MonitorIdle ==
    /\ sinks = {}
    /\ job = <<>>
    /\ multipart_upload_requests = <<>>
    /\ params = [time_limit_seconds |-> <<>>, cleanup_gateway |-> TRUE, multipart |-> FALSE]
    /\ pc = "idle"
    /\ clock = 0
    /\ poll = NoPoll
    /\ result = NoResult
    /\ cleanup = NoCleanup
    /\ complete_calls = <<>>
    /\ shutdown_posts = {}

NoPlan == [pc |-> "idle"]

PlannerIdle ==
    /\ plan = NoPlan
    /\ chunks = <<>>
    /\ chunk_batches = <<>>
    /\ store = <<>>
    /\ posts = <<>>

\* ReplicatorClient.__init__, with any topology and any instances already in the cloud.
Init ==
    /\ topology \in Topologies
    /\ cloud \in InitialClouds
    /\ bound_nodes = <<>>
    /\ temp_nodes = <<>>
    /\ security_group = {}
    /\ started = {}
    /\ terminate_calls = [s \in Servers |-> 0]
    /\ owned = {}
    /\ last = NoCall
    /\ calls = 0
    /\ MonitorIdle
    /\ PlannerIdle

Next ==
    \/ ProvisionGateways
    \/ DeprovisionGateways

Spec == Init /\ [][Next]_vars

\* monitor_transfer(job, ...) entered on a provisioned fleet and a planned job.
MonitorTopologies == {t \in Topologies : Len(t) <= MaxGateways}

Jobs == {[i \in 1..n |-> [chunk_id |-> i - 1, chunk_length_bytes |-> i]] : n \in 1..MaxChunks}

UploadRequests ==
    {[i \in 1..k |-> [upload_id |-> i, key |-> i, parts |-> <<1, 2>>]] : k \in 0..MaxUploads}

MonitorInit ==
    /\ topology \in MonitorTopologies
    /\ bound_nodes = [n \in SeqSet(topology) |-> <<n[1], n[2] + 1>>]
    /\ cloud = [s \in Servers |-> IF s \in Range(bound_nodes) THEN "RUNNING" ELSE "ABSENT"]
    /\ temp_nodes = <<>>
    /\ security_group = {}
    /\ started = Range(bound_nodes)
    /\ terminate_calls = [s \in Servers |-> 0]
    /\ owned = Range(bound_nodes)
    /\ last = NoCall
    /\ calls = 0
    /\ sinks \in (SUBSET SeqSet(topology)) \ {{}}
    /\ job \in Jobs
    /\ multipart_upload_requests \in UploadRequests
    /\ params \in [time_limit_seconds : {<<>>, <<TimeLimitSeconds>>},
                   cleanup_gateway : BOOLEAN, multipart : BOOLEAN]
    /\ pc = "loop"
    /\ clock = 0
    /\ poll = [seen |-> "nothing", elapsed |-> 0, completed_chunk_ids |-> {}]
    /\ result = NoResult
    /\ cleanup = NoCleanup
    /\ complete_calls = <<>>
    /\ shutdown_posts = {}
    /\ PlannerIdle

MonitorNext ==
    \/ MonitorIteration
    \/ Tick

MonitorSpec == MonitorInit /\ [][MonitorNext]_vars

\* The completion judgment of one poll, applied to every topology, sink set and log.
JudgeInit ==
    /\ topology \in Topologies
    /\ bound_nodes = [n \in SeqSet(topology) |-> <<n[1], n[2] + 1>>]
    /\ cloud = [s \in Servers |-> IF s \in Range(bound_nodes) THEN "RUNNING" ELSE "ABSENT"]
    /\ temp_nodes = <<>>
    /\ security_group = {}
    /\ started = Range(bound_nodes)
    /\ terminate_calls = [s \in Servers |-> 0]
    /\ owned = Range(bound_nodes)
    /\ last = NoCall
    /\ calls = 0
    /\ sinks \in (SUBSET SeqSet(topology)) \ {{}}
    /\ job = <<>>
    /\ multipart_upload_requests = <<>>
    /\ params = [time_limit_seconds |-> <<>>, cleanup_gateway |-> TRUE, multipart |-> FALSE]
    /\ pc = "judge"
    /\ clock = 0
    /\ \E log_df \in SubsetsUpTo(LogRows(bound_nodes), MaxLogRows) :
          poll = [seen |-> "log", log_df |-> log_df]
    /\ result = NoResult
    /\ cleanup = NoCleanup
    /\ complete_calls = <<>>
    /\ shutdown_posts = {}
    /\ PlannerIdle

JudgeCompletion ==
    /\ pc = "judge"
    /\ pc' = "judged"
    /\ result' = [monitor_status |-> "none",
                  completed_chunk_ids |-> CompletedChunkIds(poll.log_df, sinks)]
    /\ UNCHANGED <<pvars, sinks, job, multipart_upload_requests, params, clock, poll,
                   cleanup, complete_calls, shutdown_posts, lvars>>

JudgeNext == JudgeCompletion

JudgeSpec == JudgeInit /\ [][JudgeNext]_vars

\* run_replication_plan(job) on a provisioned fleet: any object sizes, with or without
\* max_chunk_size_mb, any non-empty set of source nodes, job.source_bucket and
\* job.dest_bucket each set (TRUE) or not.
ObjectSizes == UNION {[1..n -> 0..MaxObjectSize] : n \in 1..MaxObjects}

ChunkSizes == {<<>>} \cup {<<q>> : q \in 1..MaxChunkSize}

SourceInstances(topo) ==
    {SelectSeq(topo, LAMBDA n : n \in S) : S \in (SUBSET SeqSet(topo)) \ {{}}}

PlanInit ==
    /\ topology \in MonitorTopologies
    /\ bound_nodes = [n \in SeqSet(topology) |-> <<n[1], n[2] + 1>>]
    /\ cloud = [s \in Servers |-> IF s \in Range(bound_nodes) THEN "RUNNING" ELSE "ABSENT"]
    /\ temp_nodes = <<>>
    /\ security_group = {}
    /\ started = Range(bound_nodes)
    /\ terminate_calls = [s \in Servers |-> 0]
    /\ owned = Range(bound_nodes)
    /\ last = NoCall
    /\ calls = 0
    /\ MonitorIdle
    /\ \E sizes \in ObjectSizes, q \in ChunkSizes, sources \in SourceInstances(topology),
          source_bucket \in BOOLEAN, dest_bucket \in BOOLEAN :
          plan = [pc |-> "chunking", obj_sizes |-> sizes, max_chunk_size |-> q,
                  sources |-> sources, next |-> 1, idx |-> 0,
                  source_bucket |-> source_bucket, dest_bucket |-> dest_bucket]
    /\ chunks = <<>>
    /\ chunk_batches = <<>>
    /\ store = <<>>
    /\ posts = <<>>

PlanNext ==
    \/ PlanObject
    \/ Dispatch

PlanSpec == PlanInit /\ [][PlanNext]_vars

\* partition on any list of up to MaxItems chunks and any number of batches.
ItemLists ==
    UNION {{[i \in 1..n |-> [chunk_id |-> i - 1, chunk_length_bytes |-> len[i]]] :
               len \in [1..n -> 0..MaxLength]} : n \in 0..MaxItems}

PartitionInit ==
    /\ topology \in {t \in Topologies : Len(t) = 1}
    /\ bound_nodes = [n \in SeqSet(topology) |-> <<n[1], n[2] + 1>>]
    /\ cloud = [s \in Servers |-> IF s \in Range(bound_nodes) THEN "RUNNING" ELSE "ABSENT"]
    /\ temp_nodes = <<>>
    /\ security_group = {}
    /\ started = Range(bound_nodes)
    /\ terminate_calls = [s \in Servers |-> 0]
    /\ owned = Range(bound_nodes)
    /\ last = NoCall
    /\ calls = 0
    /\ MonitorIdle
    /\ chunks \in ItemLists
    /\ \E k \in 1..MaxBatches : plan = [pc |-> "partition", n_batches |-> k]
    /\ chunk_batches = <<>>
    /\ store = <<>>
    /\ posts = <<>>

PartitionNext == Partition

PartitionSpec == PartitionInit /\ [][PartitionNext]_vars

\* Several jobs on one client, one after another: run_replication_plan(job), then
\* monitor_transfer(job, multipart=True), then the next job.  Each job has one object
\* and a max_chunk_size_mb.
SessionPlans(topo) ==
    {[pc |-> "chunking", obj_sizes |-> sizes, max_chunk_size |-> q, sources |-> sources,
      next |-> 1, idx |-> 0, source_bucket |-> TRUE, dest_bucket |-> TRUE, job_no |-> 1] :
        sizes \in [1..1 -> 0..MaxObjectSize], q \in ChunkSizes \ {<<>>},
        sources \in SourceInstances(topo)}

SessionInit ==
    /\ topology \in {t \in Topologies : Len(t) = 1}
    /\ bound_nodes = [n \in SeqSet(topology) |-> <<n[1], n[2] + 1>>]
    /\ cloud = [s \in Servers |-> IF s \in Range(bound_nodes) THEN "RUNNING" ELSE "ABSENT"]
    /\ temp_nodes = <<>>
    /\ security_group = {}
    /\ started = Range(bound_nodes)
    /\ terminate_calls = [s \in Servers |-> 0]
    /\ owned = Range(bound_nodes)
    /\ last = NoCall
    /\ calls = 0
    /\ MonitorIdle
    /\ plan \in SessionPlans(topology)
    /\ chunks = <<>>
    /\ chunk_batches = <<>>
    /\ store = <<>>
    /\ posts = <<>>

\* What monitor_transfer reads of job.chunk_requests: cr.chunk.chunk_id and
\* cr.chunk.chunk_length_bytes.
ChunkRequestsRead(crs) ==
    [i \in DOMAIN crs |-> [chunk_id |-> crs[i].chunk.chunk_id,
                           chunk_length_bytes |-> crs[i].chunk.chunk_length_bytes]]

\* monitor_transfer(job, multipart=True) is entered for the job just planned.
EnterMonitor ==
    /\ plan.pc = "done"
    /\ pc = "idle"
    /\ pc' = "loop"
    /\ sinks' \in (SUBSET SeqSet(topology)) \ {{}}
    /\ job' = ChunkRequestsRead(job)
    /\ params' = [time_limit_seconds |-> <<>>, cleanup_gateway |-> TRUE, multipart |-> TRUE]
    /\ poll' = [seen |-> "nothing", elapsed |-> 0, completed_chunk_ids |-> {}]
    /\ clock' = 0
    /\ UNCHANGED <<pvars, multipart_upload_requests, result, cleanup, complete_calls,
                   shutdown_posts, lvars>>

\* run_replication_plan is entered for the next job, after the job before was
\* monitored or its planning failed.  chunks and the job's chunk_requests start empty;
\* the client's multipart_upload_requests is the list it already has.  What was
\* observed of the run before (poll, result, cleanup, posts) is dropped.
NextJob ==
    /\ plan.job_no < MaxJobs
    /\ pc = "done" \/ (pc = "idle" /\ plan.pc = "failed")
    /\ \E p \in SessionPlans(topology) : plan' = [p EXCEPT !.job_no = plan.job_no + 1]
    /\ chunks' = <<>>
    /\ chunk_batches' = <<>>
    /\ posts' = <<>>
    /\ job' = <<>>
    /\ sinks' = {}
    /\ params' = [time_limit_seconds |-> <<>>, cleanup_gateway |-> TRUE, multipart |-> FALSE]
    /\ pc' = "idle"
    /\ clock' = 0
    /\ poll' = NoPoll
    /\ result' = NoResult
    /\ cleanup' = NoCleanup
    /\ shutdown_posts' = {}
    /\ UNCHANGED <<pvars, multipart_upload_requests, complete_calls, store>>

SessionNext ==
    \/ PlanObject
    \/ Dispatch
    \/ EnterMonitor
    \/ MonitorIteration
    \/ Tick
    \/ NextJob

SessionSpec == SessionInit /\ [][SessionNext]_vars

\* ------------------------------------------------------------------ claims
Held == Range(bound_nodes) \cup SeqSet(temp_nodes)

\* C1: every server the client has provisioned or reused and has not yet deprovisioned
\* is in exactly one of bound_nodes' values and temp_nodes (never both, never neither),
\* in every state between provision_gateways / deprovision_gateways calls.
C1_ExactlyOneOwner ==
    \A s \in owned :
        cloud[s] # "TERMINATED" =>
            ((s \in Range(bound_nodes)) # (s \in SeqSet(temp_nodes)))

\* What C2 says of the state a successful provision_gateways leaves.
ProvisionPostcondition ==
    /\ DOMAIN bound_nodes = SeqSet(topology)
    /\ \A n \in DOMAIN bound_nodes : region_tag(bound_nodes[n]) = n[1]
    /\ \A n, m \in DOMAIN bound_nodes : bound_nodes[n] = bound_nodes[m] => n = m
    /\ SeqSet(temp_nodes) \subseteq (last.listed \ Range(bound_nodes))
    /\ ~last.reuse => temp_nodes = <<>>

ProvisionSucceeded == last.op = "provision" /\ last.ok

C8_DeprovisionIdempotent ==
    \A t1 \in SUBSET Racing(cloud, Instances(topology, bound_nodes, temp_nodes)) :
        LET s1 == DeprovisionResult(ClientState, topology, t1)
        IN  \A t2 \in SUBSET Racing(s1.cloud, Instances(topology, s1.bound_nodes, s1.temp_nodes)) :
                DeprovisionResult(s1, topology, t2) = s1

\* C8 witness: deprovision_gateways has run on a fleet an earlier call had already
\* torn down (bound servers all terminated, nothing left to terminate).
C8_Witness ==
    /\ last.op = "deprovision"
    /\ bound_nodes # <<>>
    /\ last.held # {}
    /\ last.held \cap (last.was_running \cup last.was_pending) = {}

\* C9 as stated: after deprovision_gateways, every server that was in bound_nodes or
\* temp_nodes at the call, PENDING or RUNNING, has been terminated, and temp_nodes is
\* empty.
C9_Original ==
    last.op = "deprovision" =>
        /\ \A s \in last.held \cap (last.was_running \cup last.was_pending) :
              cloud[s] = "TERMINATED"
        /\ temp_nodes = <<>>

\* C9 amended: after deprovision_gateways, every server that was in bound_nodes or
\* temp_nodes at the call and was RUNNING has been terminated, and temp_nodes is empty.
C9_RunningTerminated ==
    last.op = "deprovision" =>
        /\ \A s \in last.held \cap last.was_running :
              cloud[s] = "TERMINATED" /\ terminate_calls[s] >= 1
        /\ temp_nodes = <<>>

\* C9 witness: a deprovision that terminated a bound server and a surplus one.
C9_Witness ==
    /\ last.op = "deprovision"
    /\ \E s \in Range(bound_nodes) : s \in last.was_running /\ cloud[s] = "TERMINATED"
    /\ \E s \in last.held \ Range(bound_nodes) : s \in last.was_running /\ cloud[s] = "TERMINATED"

\* C10: when provision_gateways fails, every instance it created is in temp_nodes or
\* bound_nodes, so deprovision_gateways reaches it.
C10_FailedProvisionKeepsInstances ==
    (last.op = "provision" /\ ~last.ok) => last.created \subseteq Held

\* C3: on every exit path of monitor_transfer the cleanup block runs and, when
\* cleanup_gateway is set, a shutdown POST has been issued to every bound gateway,
\* also when an earlier cleanup step raised.
C3_ShutdownOnEveryExit ==
    pc = "done" =>
        /\ cleanup.ran
        /\ params.cleanup_gateway => shutdown_posts = Range(bound_nodes)

\* The limit the loop is held to at a poll: time_limit_seconds exceeded, or more than
\* 600 s elapsed with completed_bytes still 0.
LimitExceededAtPoll ==
    TimedOut(params.time_limit_seconds, poll.elapsed,
             CompletedBytes(job, poll.completed_chunk_ids))

\* C4: a poll that passes the probe and the error scan with the time limit exceeded, or
\* with more than 600 s elapsed and no completed bytes, does not go on looping
\* (monitor_transfer leaves with timed_out), also when the chunk status log is empty.
C4_TimeoutEndsLoop ==
    (poll.seen \in {"log", "empty log"} /\ LimitExceededAtPoll) => pc # "loop"

\* The completed chunks by the rule of the specification: for every sink region an
\* upload_complete entry reported by a gateway whose (region, instance) pair is a sink.
SinkCompleted(log_df, sink_instances) ==
    {c \in ChunkIds :
        \A r \in {n[1] : n \in sink_instances} :
            \E row \in log_df :
                /\ row.chunk_id = c
                /\ row.state = "upload_complete"
                /\ row.region = r
                /\ <<row.region, row.instance>> \in sink_instances}

\* C5: the monitor counts a chunk as completed iff every sink region holds an
\* upload_complete entry for it from a sink node; entries of non-sink gateways never
\* contribute.
C5_CompletedIffEverySinkRegion ==
    pc = "judged" => result.completed_chunk_ids = SinkCompleted(poll.log_df, sinks)

\* C6: monitor_transfer returns completed only when every chunk request of the job is
\* among the chunks the monitor judged complete, whatever chunk ids the logs contain.
C6_CompletedMeansAllChunks ==
    (pc = "done" /\ result.monitor_status = "completed") =>
        {job[i].chunk_id : i \in DOMAIN job} \subseteq result.completed_chunk_ids

ErrorsReported ==
    /\ poll.seen = "errors"
    /\ \E g \in DOMAIN poll.replies : poll.replies[g].errors # <<>>

InRegion(S, r) == {s \in S : region_tag(s) = r}
Demand(r) == Count(regions_to_provision(topology), r)
Monus(a, b) == IF a > b THEN a - b ELSE 0

\* C11: with reuse enabled, after provision_gateways returns successfully the number of
\* newly provisioned instances of every topology region is max(0, demand - listed
\* matching instances), and the listed instances beyond the demand are not bound and
\* are in temp_nodes.
C11_ReuseCountsAgainstDemand ==
    (ProvisionSucceeded /\ last.reuse) =>
        \A r \in SeqSet(regions_to_provision(topology)) :
            LET matching == InRegion(last.listed, r)
                surplus  == matching \ Range(bound_nodes)
            IN  /\ Cardinality(InRegion(last.created, r))
                     = Monus(Demand(r), Cardinality(matching))
                /\ Cardinality(surplus) = Monus(Cardinality(matching), Demand(r))
                /\ surplus \subseteq SeqSet(temp_nodes)

C11_Witness ==
    /\ ProvisionSucceeded
    /\ last.reuse
    /\ \E r \in SeqSet(regions_to_provision(topology)) :
          Cardinality(InRegion(last.listed, r)) > Demand(r)
    /\ \E r \in SeqSet(regions_to_provision(topology)) :
          /\ InRegion(last.listed, r) # {}
          /\ InRegion(last.created, r) # {}

\* C12: after provision_gateways returns successfully every server in bound_nodes has
\* instance_state RUNNING, the servers taken over through reuse included.
C12_BoundRunning ==
    ProvisionSucceeded => \A n \in DOMAIN bound_nodes : cloud[bound_nodes[n]] = "RUNNING"

C12_Witness ==
    /\ ProvisionSucceeded
    /\ last.reuse
    /\ \E s \in Range(bound_nodes) \cap last.listed : s \in last.was_pending

ChunksOf(obj) == SelectSeq(chunks, LAMBDA c : c.src_key = obj)
ChunksOfUpload(u) == SelectSeq(chunks, LAMBDA c : c.upload_id = <<u>>)
Multipart == plan.pc \in {"chunking", "done", "failed"} /\ plan.max_chunk_size # <<>>

\* The objects whose chunking loop has run: those before plan.next, and the object the
\* planner failed on after its upload was initiated.
Chunked(obj) ==
    \/ obj < plan.next
    \/ /\ obj = plan.next
       /\ plan.pc = "failed"
       /\ \E k \in DOMAIN store : store[k].key = obj

\* C13: for every object size S >= 0 and chunk size Q > 0, exact multiples included,
\* multipart planning of the object emits floor(S/Q) + 1 chunks whose lengths sum to S
\* and whose ranges are contiguous from offset 0.
C13_ChunksPartitionObject ==
    Multipart =>
        \A obj \in DOMAIN plan.obj_sizes :
            Chunked(obj) =>
                LET cs == ChunksOf(obj)
                    S  == plan.obj_sizes[obj]
                    Q  == plan.max_chunk_size[1]
                IN  /\ Len(cs) = (S \div Q) + 1
                    /\ BatchSum(cs) = S
                    /\ cs[1].file_offset_bytes = 0
                    /\ \A j \in 1..(Len(cs) - 1) :
                          cs[j + 1].file_offset_bytes
                              = cs[j].file_offset_bytes + cs[j].chunk_length_bytes

\* C14: every chunk run_replication_plan emits or dispatches, on the multipart path and
\* on the whole-object path, has chunk_length_bytes > 0.
C14_PositiveChunkLength ==
    plan.pc \in {"chunking", "done", "failed"} =>
        /\ \A i \in DOMAIN chunks : chunks[i].chunk_length_bytes > 0
        /\ \A k \in DOMAIN posts : \A j \in DOMAIN posts[k].chunk_requests :
              posts[k].chunk_requests[j].chunk.chunk_length_bytes > 0

\* C15: the chunks of every multipart upload carry part numbers 1, 2, ..., N in emission
\* (offset) order, and the upload's record has parts = [1, ..., N] and the upload_id of
\* those chunks.
C15_PartNumbers ==
    Multipart =>
        /\ \A k \in DOMAIN store :
              LET cs == ChunksOfUpload(store[k].upload_id)
              IN  \A j \in DOMAIN cs :
                     /\ cs[j].part_number = <<j>>
                     /\ j > 1 => cs[j].file_offset_bytes > cs[j - 1].file_offset_bytes
        /\ \A r \in DOMAIN multipart_upload_requests :
              LET rec == multipart_upload_requests[r]
                  cs  == ChunksOfUpload(rec.upload_id)
              IN  /\ cs # <<>>
                  /\ rec.parts = [j \in 1..Len(cs) |-> j]
                  /\ \A j \in DOMAIN cs : cs[j].dest_key = rec.key

C15_Witness ==
    /\ Multipart
    /\ Len(multipart_upload_requests) >= 2
    /\ \E r \in DOMAIN multipart_upload_requests : Len(multipart_upload_requests[r].parts) >= 2

\* C16: within one job the chunk_id values are pairwise distinct and strictly increasing
\* in the order the chunks are planned: object by object and, inside a multipart
\* object, part by part.
C16_ChunkIdsIncreasing ==
    plan.pc \in {"chunking", "done", "failed"} =>
        \A i, j \in DOMAIN chunks :
            i < j =>
                /\ chunks[i].chunk_id < chunks[j].chunk_id
                /\ \/ chunks[i].src_key < chunks[j].src_key
                   \/ /\ chunks[i].src_key = chunks[j].src_key
                      /\ chunks[i].file_offset_bytes < chunks[j].file_offset_bytes

C16_Witness ==
    /\ plan.pc = "done"
    /\ Len(chunks) >= 3
    /\ \E i, j \in DOMAIN chunks : chunks[i].src_key # chunks[j].src_key
    /\ \E i, j \in DOMAIN chunks : i # j /\ chunks[i].upload_id = chunks[j].upload_id
                                        /\ chunks[i].upload_id # <<>>

\* y is taken before x in descending length order (equal lengths in list order).
PlacedBefore(y, x) ==
    \/ y.chunk_length_bytes > x.chunk_length_bytes
    \/ y.chunk_length_bytes = x.chunk_length_bytes /\ y.chunk_id < x.chunk_id

\* The byte total of batch b at the moment x is placed.
TotalWhenPlaced(b, x) ==
    BatchSum(SelectSeq(chunk_batches[b], LAMBDA y : PlacedBefore(y, x)))

BatchSums == {BatchSum(chunk_batches[b]) : b \in DOMAIN chunk_batches}
Lengths == {chunks[i].chunk_length_bytes : i \in DOMAIN chunks} \cup {0}
Largest(S) == CHOOSE m \in S : \A n \in S : n <= m
Least(S) == CHOOSE m \in S : \A n \in S : m <= n

\* C17: batching puts every chunk, taken in descending length order, into the batch
\* with the smallest byte total at that moment, the lowest index on ties, and the K
\* batches satisfy max(batch_sum) - min(batch_sum) <= max(chunk_length).
C17_LptBatching ==
    plan.pc = "partitioned" =>
        /\ Len(chunk_batches) = plan.n_batches
        /\ \A b \in DOMAIN chunk_batches : \A j \in DOMAIN chunk_batches[b] :
              LET x == chunk_batches[b][j]
              IN  /\ \A i \in 1..(j - 1) : PlacedBefore(chunk_batches[b][i], x)
                  /\ \A c \in DOMAIN chunk_batches :
                        /\ TotalWhenPlaced(b, x) <= TotalWhenPlaced(c, x)
                        /\ c < b => TotalWhenPlaced(b, x) < TotalWhenPlaced(c, x)
        /\ Largest(BatchSums) - Least(BatchSums) <= Largest(Lengths)

C17_Witness ==
    /\ plan.pc = "partitioned"
    /\ plan.n_batches >= 2
    /\ Len(chunks) > plan.n_batches
    /\ \E i, j \in DOMAIN chunks :
          i < j /\ chunks[i].chunk_length_bytes < chunks[j].chunk_length_bytes
    /\ \E b, c \in DOMAIN chunk_batches :
          b # c /\ chunk_batches[b] # <<>> /\ BatchSum(chunk_batches[b]) = BatchSum(chunk_batches[c])

Dispatched == Concat([k \in DOMAIN posts |->
                  [j \in DOMAIN posts[k].chunk_requests |-> posts[k].chunk_requests[j].chunk]])

\* C18: the batches concatenated equal the planned chunk list as a multiset, batch i is
\* POSTed to the i-th source instance, each source gateway receives exactly one POST,
\* and every planned chunk is dispatched to exactly one gateway and appears exactly once
\* in job.chunk_requests.
C18_EveryChunkDispatchedOnce ==
    plan.pc = "done" =>
        /\ Len(Concat(chunk_batches)) = Len(chunks)
        /\ \A i \in DOMAIN chunks : Count(Concat(chunk_batches), chunks[i]) = 1
        /\ Len(posts) = Len(plan.sources)
        /\ \A k \in DOMAIN posts :
              /\ posts[k].instance = bound_nodes[plan.sources[k]]
              /\ posts[k].chunk_requests
                    = [j \in DOMAIN chunk_batches[k] |-> ChunkRequest(chunk_batches[k][j])]
              /\ \A l \in DOMAIN posts : posts[l].instance = posts[k].instance => l = k
        /\ Len(job) = Len(chunks)
        /\ \A i \in DOMAIN chunks :
              /\ Count(Dispatched, chunks[i]) = 1
              /\ Count(job, ChunkRequest(chunks[i])) = 1

C18_Witness ==
    /\ plan.pc = "done"
    /\ Len(plan.sources) >= 2
    /\ Len(chunks) >= 3
    /\ \A b \in DOMAIN chunk_batches : chunk_batches[b] # <<>>
    /\ Len(job) = Len(chunks)

UploadAcknowledged(u) == \E a \in DOMAIN store : store[a].upload_id = u
UploadRecorded(u) ==
    \E r \in DOMAIN multipart_upload_requests : multipart_upload_requests[r].upload_id = u

\* C19: a chunk request carrying an upload_id is POSTed to a gateway only when, before
\* the POST, the destination store had acknowledged the initiate_multipart_upload of that
\* upload_id and multipart_upload_requests held its record.
C19_AckBeforeDispatch ==
    [][\A k \in DOMAIN posts' :
          k \notin DOMAIN posts =>
             \A j \in DOMAIN posts'[k].chunk_requests :
                 LET c == posts'[k].chunk_requests[j].chunk
                 IN  c.upload_id # <<>> =>
                        /\ UploadAcknowledged(c.upload_id[1])
                        /\ UploadRecorded(c.upload_id[1])]_vars

C19_Witness ==
    /\ posts # <<>>
    /\ Len(multipart_upload_requests) >= 2
    /\ \E k \in DOMAIN posts : \E j \in DOMAIN posts[k].chunk_requests :
          posts[k].chunk_requests[j].chunk.upload_id = <<2>>

AllChunksComplete ==
    /\ poll.seen = "log"
    /\ Cardinality(poll.completed_chunk_ids) = Len(job)

\* C20: when monitor_transfer runs with multipart set and all chunks complete,
\* complete_multipart_upload is called exactly once for every record, with the record's
\* key, upload_id and parts; completed is returned only when every call succeeded; on
\* the error and timed_out paths no call is made.
C20_FinalizeOnSuccessOnly ==
    pc = "done" =>
        /\ (AllChunksComplete /\ params.multipart) =>
              /\ Len(complete_calls) = Len(multipart_upload_requests)
              /\ \A r \in DOMAIN multipart_upload_requests :
                    Count(complete_calls,
                          [key |-> multipart_upload_requests[r].key,
                           upload_id |-> multipart_upload_requests[r].upload_id,
                           parts |-> multipart_upload_requests[r].parts]) = 1
              /\ (\E i \in DOMAIN poll.finalized : ~poll.finalized[i])
                    => result.monitor_status = "exception"
              /\ (\A i \in DOMAIN poll.finalized : poll.finalized[i])
                    => result.monitor_status = "completed"
        /\ result.monitor_status \in {"error", "timed_out"} => complete_calls = <<>>
        /\ ~params.multipart => complete_calls = <<>>

C20_Witness ==
    /\ pc = "done"
    /\ result.monitor_status = "completed"
    /\ params.multipart
    /\ multipart_upload_requests # <<>>
    /\ Len(complete_calls) = Len(multipart_upload_requests)
    /\ Len(job) >= 2

\* C21: after provision_gateways returns successfully, with or without reuse, the
\* public IP of every bound server has been added to the security group of every AWS
\* subregion of the topology.
C21_FirewallAdmitsEveryBoundServer ==
    ProvisionSucceeded =>
        \A r \in SeqSet(ProviderRegions(topology, "aws")) :
            \A s \in Range(bound_nodes) :
                <<r[2], public_ip(s)>> \in security_group

\* C22: every constructed ChunkRequest has src_type object_store exactly when
\* job.source_bucket is set (random otherwise) and dst_type object_store exactly when
\* job.dest_bucket is set (save_local otherwise).
C22_TypesFollowBuckets ==
    \A k \in DOMAIN posts : \A j \in DOMAIN posts[k].chunk_requests :
        LET cr == posts[k].chunk_requests[j]
        IN  /\ cr.src_type = (IF plan.source_bucket THEN "object_store" ELSE "random")
            /\ cr.dst_type = (IF plan.dest_bucket THEN "object_store" ELSE "save_local")

\* C23: if a source gateway answers the chunk_requests POST with a status other than
\* 200, run_replication_plan fails and job.chunk_requests stays unset; it is set only
\* after every source gateway has answered 200.
C23_DispatchFailureLeavesJobUnset ==
    /\ (\E k \in DOMAIN posts : posts[k].status_code # 200) =>
          plan.pc = "failed" /\ job = <<>>
    /\ job # <<>> =>
          /\ plan.pc = "done"
          /\ Len(posts) = Len(plan.sources)
          /\ \A k \in DOMAIN posts : posts[k].status_code = 200

C23_Witness ==
    /\ plan.pc = "failed"
    /\ job = <<>>
    /\ \E k, l \in DOMAIN posts :
          /\ posts[k].status_code = 200 /\ posts[k].chunk_requests # <<>>
          /\ posts[l].status_code # 200

\* C24: a failure of the liveness probe on a bound server does not end
\* monitor_transfer: the loop goes on, or the run ends with one of the statuses
\* completed, error, timed_out.
C24_ProbeFailureNotFatal ==
    poll.seen = "probe failure" =>
        \/ pc = "loop"
        \/ result.monitor_status \in {"completed", "error", "timed_out"}

C26_WorkersLeaveTempNodesAlone ==
    (last.op = "provision" /\ last.fault = "provision") =>
        Range(temp_nodes) \cap last.created = {}

\* The upload ids of the chunks of the job being planned or monitored.
UploadsOfJob == {c.upload_id[1] : c \in {d \in SeqSet(chunks) : d.upload_id # <<>>}}

\* C27: over several jobs planned and monitored one after another with multipart set,
\* complete_multipart_upload is called at most once per upload_id, and a monitor run
\* that returns completed has made one call for each upload of the job it monitors and
\* none for the records of earlier jobs.
C27_FinalizeOncePerUpload ==
    /\ \A i, j \in DOMAIN complete_calls :
          i # j => complete_calls[i].upload_id # complete_calls[j].upload_id
    /\ (pc = "done" /\ result.monitor_status = "completed") =>
          Len(poll.finalized) = Cardinality(UploadsOfJob)

\* C28: when run_replication_plan fails while chunking (the length assertion fails, or
\* a later initiate_multipart_upload raises), every upload the destination store has
\* acknowledged is recorded in multipart_upload_requests, and no chunk request has been
\* dispatched.
C28_ChunkingFailureTracksUploads ==
    (plan.pc = "failed" /\ plan.next <= Len(plan.obj_sizes)) =>
        /\ \A a \in DOMAIN store : UploadRecorded(store[a].upload_id)
        /\ posts = <<>>

====
